---- MODULE Spec2Model ----
(***************************************************************************)
(* Model of the Demo facade of src/utils.py (class Demo) over a DynamoDB   *)
(* table resource, and of the calls src/dynamo_db.py makes on it.          *)
(*                                                                         *)
(* State of the program: self.table (the lazily bound table handle).       *)
(* State of the Table Service the facade talks to: which tables exist and  *)
(* the items each holds.  `written` is the history of the accepted puts,   *)
(* per table, as the caller passed them.  Every facade method is one action; its inputs    *)
(* (arguments, and whether the service fails the request) are drawn from   *)
(* small sets.  `last` records the last call: its arguments, the handle    *)
(* before it, the requests it issued and how it ended.                     *)
(***************************************************************************)
EXTENDS Integers, Sequences, FiniteSets, TLC

VARIABLES table, tables, items, written, last, ops

vars == <<table, tables, items, written, last, ops>>

\* Python's None (self.table = None, table_name=None, range_key_name=None, ...).
None == "None"

\* range_key_bounds=None: the parameter is a two-element tuple when supplied.
NoBounds == <<>>

\* Number of facade calls in one run of the model.
MaxOps == 4

(***************************************************************************)
(* Values.  A Python value carries its type; the resource layer converts   *)
(* it to the service's typed attribute value on the way in (str -> S,      *)
(* int -> N) and back on the way out (S -> str, N -> Decimal).             *)
(***************************************************************************)
PyStr(s) == [t |-> "str", v |-> s]

PyInt(n) == [t |-> "int", v |-> n]

Serialize(val) ==
    IF val.t = "str" THEN [t |-> "S", v |-> val.v] ELSE [t |-> "N", v |-> val.v]

Deserialize(w) ==
    IF w.t = "S" THEN [t |-> "str", v |-> w.v] ELSE [t |-> "Decimal", v |-> w.v]

SerializeItem(item) == [a \in DOMAIN item |-> Serialize(item[a])]

DeserializeItem(w) == [a \in DOMAIN w |-> Deserialize(w[a])]

IsNumber(val) == val.t \in {"int", "Decimal"}

\* Python's ==: a str equals a str with the same text, an int equals a Decimal
\* of the same numeric value, a str never equals a number.
PyEq(a, b) ==
    \/ a.t = "str" /\ b.t = "str" /\ a.v = b.v
    \/ IsNumber(a) /\ IsNumber(b) /\ a.v = b.v

\* Python's == on two dicts.
PyEqItem(a, b) ==
    /\ DOMAIN a = DOMAIN b
    /\ \A k \in DOMAIN a : PyEq(a[k], b[k])

(***************************************************************************)
(* The schema create_table declares.                                       *)
(***************************************************************************)
KeySchema == [HASH |-> "customerID", RANGE |-> "orderID"]

AttributeDefinitions ==
    [customerID |-> "S", orderID |-> "N", orderSum |-> "N", transactionID |-> "S"]

LocalSecondaryIndexes ==
    [IndexName |-> "orderSum-index", HASH |-> "customerID", RANGE |-> "orderSum"]

GlobalSecondaryIndexes ==
    [IndexName |-> "transactionID-index", HASH |-> "transactionID", RANGE |-> None]

IndexNames == {LocalSecondaryIndexes.IndexName, GlobalSecondaryIndexes.IndexName}

\* The key schema a query runs against: the table's, or the named index's.
QuerySchema(index_name) ==
    IF index_name = LocalSecondaryIndexes.IndexName
    THEN [HASH |-> LocalSecondaryIndexes.HASH, RANGE |-> LocalSecondaryIndexes.RANGE]
    ELSE IF index_name = GlobalSecondaryIndexes.IndexName
    THEN [HASH |-> GlobalSecondaryIndexes.HASH, RANGE |-> GlobalSecondaryIndexes.RANGE]
    ELSE KeySchema

(***************************************************************************)
(* The Table Service, as the resource's calls reach it.  Every request may *)
(* fail (`fail`: throttling, an outage); a request for a table that does   *)
(* not exist or that does not fit the schema is rejected.  A rejection is  *)
(* an error code, which the resource raises as ClientError.                *)
(***************************************************************************)
HasType(w, attr) == w.t = AttributeDefinitions[attr]

\* An item the table accepts: both key attributes, and every attribute a key
\* schema (table or index) names has its declared type.
ValidItem(Item) ==
    /\ {KeySchema.HASH, KeySchema.RANGE} \subseteq DOMAIN Item
    /\ \A a \in DOMAIN Item \cap DOMAIN AttributeDefinitions : HasType(Item[a], a)

\* A key get_item accepts: exactly the table's key attributes, typed as declared.
ValidKey(Key) ==
    /\ DOMAIN Key = {KeySchema.HASH, KeySchema.RANGE}
    /\ \A a \in DOMAIN Key : HasType(Key[a], a)

SameKey(w, Key) ==
    /\ w[KeySchema.HASH] = Key[KeySchema.HASH]
    /\ w[KeySchema.RANGE] = Key[KeySchema.RANGE]

\* self.table.put_item(Item=...): the error code, or None.
PutItemError(name, Item, fail) ==
    IF fail THEN "InternalServerError"
    ELSE IF name \notin tables THEN "ResourceNotFoundException"
    ELSE IF ~ValidItem(Item) THEN "ValidationException"
    ELSE None

\* The table's items after an accepted put: the item replaces, in full, the
\* item stored under the same key.
PutItemStore(stored, Item) ==
    {w \in stored : ~SameKey(w, Item)} \cup {Item}

\* self.table.get_item(Key=...): the error code, or None.
GetItemError(name, Key, fail) ==
    IF fail THEN "InternalServerError"
    ELSE IF name \notin tables THEN "ResourceNotFoundException"
    ELSE IF ~ValidKey(Key) THEN "ValidationException"
    ELSE None

\* The response of an accepted get_item: it carries 'Item' only when an item
\* is stored under the key.
GetItemResponse(name, Key) ==
    LET found == {w \in items[name] : SameKey(w, Key)}
    IN  IF found = {}
        THEN [ResponseMetadata |-> "200"]
        ELSE [ResponseMetadata |-> "200",
              Item |-> DeserializeItem(CHOOSE w \in found : TRUE)]

\* A key condition is <<hash name, value>> or
\* <<hash name, value, range name, low, high>>.
HasRange(cond) == Len(cond) = 5

ValidCondition(index_name, cond) ==
    LET schema == QuerySchema(index_name)
    IN  /\ index_name \in IndexNames \cup {None}
        /\ cond[1] = schema.HASH
        /\ HasType(Serialize(cond[2]), cond[1])
        /\ HasRange(cond) =>
              /\ cond[3] = schema.RANGE
              /\ HasType(Serialize(cond[4]), cond[3])
              /\ HasType(Serialize(cond[5]), cond[3])
              /\ cond[4].v <= cond[5].v

\* self.table.query(...): the error code, or None.
QueryError(name, index_name, cond, fail) ==
    IF fail THEN "InternalServerError"
    ELSE IF name \notin tables THEN "ResourceNotFoundException"
    ELSE IF ~ValidCondition(index_name, cond) THEN "ValidationException"
    ELSE None

\* Whether a stored item satisfies the key condition: equality on the hash
\* attribute and, with a range part, BETWEEN low AND high, both ends included.
Satisfies(w, cond) ==
    /\ cond[1] \in DOMAIN w
    /\ w[cond[1]] = Serialize(cond[2])
    /\ HasRange(cond) =>
          /\ cond[3] \in DOMAIN w
          /\ cond[4].v <= w[cond[3]].v
          /\ w[cond[3]].v <= cond[5].v

\* The response of an accepted query.  An item is in an index only when it
\* carries the index's key attributes.  'Items' is modelled as the collection
\* of items returned; their order is the service's.
QueryResponse(name, index_name, cond) ==
    LET schema == QuerySchema(index_name)
        inIndex(w) == /\ schema.HASH \in DOMAIN w
                      /\ schema.RANGE # None => schema.RANGE \in DOMAIN w
    IN  [ResponseMetadata |-> "200",
         Items |-> {DeserializeItem(w) :
                       w \in {x \in items[name] : inIndex(x) /\ Satisfies(x, cond)}}]

\* self.resource.create_table(TableName=...): the error code, or None.
CreateTableError(name, fail) ==
    IF fail THEN "InternalServerError"
    ELSE IF name \in tables THEN "ResourceInUseException"
    ELSE None

(***************************************************************************)
(* The facade: class Demo.                                                 *)
(***************************************************************************)
\* How a call ends: a normal return handing `value` (the collection of items
\* returned: the one item of get_item, the 'Items' of query_items) to the
\* caller, or an exception of class `kind` (for ClientError, with the
\* service's error code).
Return(value) == [kind |-> "return", code |-> None, value |-> value]

Raise(kind, code) == [kind |-> kind, code |-> code, value |-> {}]

\* self.resource.Table(table_name): a handle for the named table, made
\* without any request to the service.  The resource refuses to build a
\* handle whose name identifier is None (ValueError).
ResourceTable(table_name) ==
    IF table_name = None
    THEN [table |-> None, exc |-> "ValueError"]
    ELSE [table |-> table_name, exc |-> None]

\* A set_table that falls back on the script's table when no name is given.
set_table_default(tbl, table_name) ==
    IF tbl = None
    THEN ResourceTable(IF table_name = None THEN "workshop" ELSE table_name)
    ELSE [table |-> tbl, exc |-> None]

\* A set_table without the guard on self.table: a name given rebinds.
set_table_rebind(tbl, table_name) ==
    IF tbl = None \/ table_name # None
    THEN ResourceTable(table_name)
    ELSE [table |-> tbl, exc |-> None]

\* Demo.set_table: binds self.table only when it is not bound yet.
set_table(tbl, table_name) ==
    IF tbl = None
    THEN ResourceTable(table_name)
    ELSE [table |-> tbl, exc |-> None]

\* An add_item that logs the ClientError and does not raise it again.
add_item_try_swallow(err) == Return({})

\* Demo.add_item, the try block: one put_item request; a ClientError is
\* logged and raised again.
add_item_try(err) ==
    IF err # None THEN Raise("ClientError", err) ELSE Return({})

\* The Item argument of put_item: the call's keyword arguments.
put_item_Item(kwargs) == kwargs

\* A get_item that returns the whole response.
get_item_else_response(response) == Return({response})

\* Demo.get_item, the else branch: response['Item'], a KeyError when the
\* response has no 'Item'.
get_item_else(response) ==
    IF "Item" \in DOMAIN response
    THEN Return({response.Item})
    ELSE Raise("KeyError", None)

\* A get_item that logs the ClientError and does not raise it again.
get_item_try_swallow(err, response) ==
    IF err # None THEN Return({}) ELSE get_item_else(response)

\* Demo.get_item, the try block: one get_item request; a ClientError is
\* logged and raised again.
get_item_try(err, response) ==
    IF err # None THEN Raise("ClientError", err) ELSE get_item_else(response)

\* A key condition whose between takes bounds[0] for both ends.
KeyConditionExpression_low_twice(partition_key_name, partition_key_value, range_key_name, range_key_bounds) ==
    IF range_key_name # None
    THEN IF range_key_bounds = NoBounds
         THEN [exc |-> "TypeError", cond |-> <<>>]
         ELSE [exc |-> None,
               cond |-> <<partition_key_name, partition_key_value,
                          range_key_name, range_key_bounds[1], range_key_bounds[1]>>]
    ELSE [exc |-> None, cond |-> <<partition_key_name, partition_key_value>>]

\* Demo.query_items, the key condition: Key(partition).eq(value), and, when
\* range_key_name is truthy, & Key(range).between(bounds[0], bounds[1]).
\* Subscripting range_key_bounds=None raises TypeError.
KeyConditionExpression(partition_key_name, partition_key_value, range_key_name, range_key_bounds) ==
    IF range_key_name # None
    THEN IF range_key_bounds = NoBounds
         THEN [exc |-> "TypeError", cond |-> <<>>]
         ELSE [exc |-> None,
               cond |-> <<partition_key_name, partition_key_value,
                          range_key_name, range_key_bounds[1], range_key_bounds[2]>>]
    ELSE [exc |-> None, cond |-> <<partition_key_name, partition_key_value>>]

\* Demo.query_items, the try block: one query request; a ClientError is
\* logged and raised again, otherwise response['Items'] is returned.
query_items_try(err, response) ==
    IF err # None THEN Raise("ClientError", err) ELSE Return(response.Items)

\* The record of a call.  pre, items_before: self.table and the stored items
\* before the call; nreq: the service requests the call issued; target: the
\* table they were sent to; request: the key condition and index of a query;
\* svc: the service's answer ("none" without a request, "ok", or its error
\* code).
Call(op, table_name, args, target, nreq, request, svc, outcome) ==
    [op |-> op, table_name |-> table_name, args |-> args, pre |-> table,
     items_before |-> items, target |-> target, nreq |-> nreq,
     request |-> request, svc |-> svc,
     kind |-> outcome.kind, code |-> outcome.code, value |-> outcome.value]

Answer(err) == IF err = None THEN "ok" ELSE err

NoRequest == [IndexName |-> None, KeyConditionExpression |-> <<>>]

NoArgs == [none |-> None]

set_table_call(table_name) ==
    LET st == set_table(table, table_name)
    IN  /\ ops < MaxOps
        /\ ops' = ops + 1
        /\ table' = st.table
        /\ last' = Call("set_table", table_name, NoArgs, None, 0, NoRequest, "none",
                        IF st.exc # None THEN Raise(st.exc, None) ELSE Return({}))
        /\ UNCHANGED <<tables, items, written>>

add_item(table_name, kwargs, fail) ==
    LET st  == set_table(table, table_name)
        req == put_item_Item(kwargs)
        err == PutItemError(st.table, SerializeItem(req), fail)
    IN  /\ ops < MaxOps
        /\ ops' = ops + 1
        /\ table' = st.table
        /\ UNCHANGED tables
        /\ IF st.exc # None
           THEN /\ last' = Call("add_item", table_name, kwargs, None, 0, NoRequest, "none",
                                Raise(st.exc, None))
                /\ UNCHANGED <<items, written>>
           ELSE /\ last' = Call("add_item", table_name, kwargs, st.table, 1, NoRequest,
                                Answer(err), add_item_try(err))
                /\ IF err = None
                   THEN /\ items' = [items EXCEPT ![st.table] =
                                        PutItemStore(@, SerializeItem(req))]
                        /\ written' = [written EXCEPT ![st.table] = Append(@, kwargs)]
                   ELSE UNCHANGED <<items, written>>

get_item(table_name, kwargs, fail) ==
    LET st  == set_table(table, table_name)
        err == GetItemError(st.table, SerializeItem(kwargs), fail)
        response == IF err = None
                    THEN GetItemResponse(st.table, SerializeItem(kwargs))
                    ELSE [ResponseMetadata |-> "400"]
    IN  /\ ops < MaxOps
        /\ ops' = ops + 1
        /\ table' = st.table
        /\ UNCHANGED <<tables, items, written>>
        /\ IF st.exc # None
           THEN last' = Call("get_item", table_name, kwargs, None, 0, NoRequest, "none",
                             Raise(st.exc, None))
           ELSE last' = Call("get_item", table_name, kwargs, st.table, 1, NoRequest,
                             Answer(err), get_item_try(err, response))

query_items(partition_key_name, partition_key_value, range_key_name, range_key_bounds, index_name, table_name, fail) ==
    LET st   == set_table(table, table_name)
        kc   == KeyConditionExpression(partition_key_name, partition_key_value,
                                       range_key_name, range_key_bounds)
        args == [partition_key_name |-> partition_key_name,
                 partition_key_value |-> partition_key_value,
                 range_key_name |-> range_key_name,
                 range_key_bounds |-> range_key_bounds,
                 index_name |-> index_name]
        req  == [IndexName |-> index_name, KeyConditionExpression |-> kc.cond]
        err  == QueryError(st.table, index_name, kc.cond, fail)
        response == IF err = None
                    THEN QueryResponse(st.table, index_name, kc.cond)
                    ELSE [ResponseMetadata |-> "400", Items |-> {}]
    IN  /\ ops < MaxOps
        /\ ops' = ops + 1
        /\ table' = st.table
        /\ UNCHANGED <<tables, items, written>>
        /\ IF st.exc # None
           THEN last' = Call("query_items", table_name, args, None, 0, NoRequest, "none",
                             Raise(st.exc, None))
           ELSE IF kc.exc # None
           THEN last' = Call("query_items", table_name, args, None, 0, NoRequest, "none",
                             Raise(kc.exc, None))
           ELSE last' = Call("query_items", table_name, args, st.table, 1, req,
                             Answer(err), query_items_try(err, response))

\* Demo.create_table: self.table is assigned as soon as the create request is
\* accepted; wait_until_exists then polls the service and raises WaiterError
\* (not a ClientError) when the table does not come to exist.
create_table(table_name, fail, wait_fail) ==
    LET err == CreateTableError(table_name, fail)
    IN  /\ ops < MaxOps
        /\ ops' = ops + 1
        /\ IF err # None
           THEN /\ last' = Call("create_table", table_name, NoArgs, table_name, 1,
                                NoRequest, err, Raise("ClientError", err))
                /\ UNCHANGED <<table, tables, items, written>>
           ELSE /\ table' = table_name
                /\ tables' = tables \cup {table_name}
                /\ items' = [items EXCEPT ![table_name] = {}]
                /\ written' = [written EXCEPT ![table_name] = <<>>]
                /\ last' = Call("create_table", table_name, NoArgs, table_name, 2,
                                NoRequest,
                                IF wait_fail THEN "ResourceNotReady" ELSE "ok",
                                IF wait_fail THEN Raise("WaiterError", None)
                                ELSE Return({}))

(***************************************************************************)
(* The calls of a run: the arguments the demo script uses, and neighbours  *)
(* of them.                                                                *)
(***************************************************************************)
TableNames == {"workshop", "other"}

FullItem(c, o, s, t) ==
    [customerID |-> PyStr(c), orderID |-> PyInt(o),
     orderSum |-> PyInt(s), transactionID |-> PyStr(t)]

\* What the table 'workshop' holds when the run starts: items an earlier run
\* of the script loaded.
SampleItems ==
    <<FullItem("111222", 331, 9, "tr120"),
      FullItem("111222", 332, 11, "tr121"),
      FullItem("111333", 331, 7, "tr122")>>

\* Items the table accepts (one replacing a stored item, one replacing a
\* stored item by an item without the index attributes, two under new keys)
\* and items it rejects (no sort key; a sort key of the wrong type).
ItemArgs ==
    {FullItem("111222", 331, 11, "tr120"),
     [customerID |-> PyStr("111222"), orderID |-> PyInt(332)],
     FullItem("111333", 332, 9, "tr123"),
     FullItem("111222", 333, 7, "tr120"),
     [customerID |-> PyStr("111222"), orderSum |-> PyInt(9)],
     [customerID |-> PyStr("111222"), orderID |-> PyStr("331")]}

BaseKey(c, o) == [customerID |-> PyStr(c), orderID |-> PyInt(o)]

\* Complete keys (of stored items and of none), and keys that miss the sort
\* attribute.
KeyArgs ==
    {BaseKey("111222", 331), BaseKey("111222", 332), BaseKey("111333", 332),
     [transactionID |-> PyStr("tr120")],
     [customerID |-> PyStr("111222")]}

Query(pkn, pkv, rkn, rkb, idx) ==
    [partition_key_name |-> pkn, partition_key_value |-> PyStr(pkv),
     range_key_name |-> rkn, range_key_bounds |-> rkb, index_name |-> idx]

Bounds(low, high) == <<PyInt(low), PyInt(high)>>

\* The three queries of the script, and queries next to them: other bounds
\* and partitions, bounds in the wrong order, a range name without bounds,
\* bounds without a range name, a range on the table's own sort key, and key
\* names that do not fit the schema queried.
QueryArgs ==
    {Query("customerID", "111222", None, NoBounds, None),
     Query("transactionID", "tr120", None, NoBounds, "transactionID-index"),
     Query("customerID", "111222", "orderSum", Bounds(7, 10), "orderSum-index"),
     Query("customerID", "111222", "orderSum", Bounds(9, 11), "orderSum-index"),
     Query("customerID", "111222", "orderSum", Bounds(10, 11), "orderSum-index"),
     Query("customerID", "111222", "orderSum", Bounds(10, 7), "orderSum-index"),
     Query("customerID", "111333", "orderSum", Bounds(7, 10), "orderSum-index"),
     Query("customerID", "111222", "orderSum", NoBounds, "orderSum-index"),
     Query("customerID", "111222", None, Bounds(7, 10), "orderSum-index"),
     Query("customerID", "111222", "orderID", Bounds(332, 333), None),
     Query("customerID", "111222", "orderSum", Bounds(7, 10), None),
     Query("transactionID", "tr120", None, NoBounds, None)}

\* Demo.__init__: no handle.  In the service the table 'workshop' exists.
Init ==
    /\ table = None
    /\ tables = {"workshop"}
    /\ written = [t \in TableNames |-> IF t = "workshop" THEN SampleItems ELSE <<>>]
    /\ items = [t \in TableNames |->
                   IF t = "workshop"
                   THEN {SerializeItem(SampleItems[i]) : i \in DOMAIN SampleItems}
                   ELSE {}]
    /\ ops = 0
    /\ last = Call("__init__", None, NoArgs, None, 0, NoRequest, "none", Return({}))

Next ==
    \/ \E n \in TableNames \cup {None} : set_table_call(n)
    \/ \E n \in TableNames, fail \in BOOLEAN, wait_fail \in BOOLEAN :
          create_table(n, fail, wait_fail)
    \/ \E n \in TableNames \cup {None}, kwargs \in ItemArgs, fail \in BOOLEAN :
          add_item(n, kwargs, fail)
    \/ \E n \in TableNames \cup {None}, kwargs \in KeyArgs, fail \in BOOLEAN :
          get_item(n, kwargs, fail)
    \/ \E n \in TableNames \cup {None}, q \in QueryArgs, fail \in BOOLEAN :
          query_items(q.partition_key_name, q.partition_key_value,
                      q.range_key_name, q.range_key_bounds, q.index_name, n, fail)

Spec == Init /\ [][Next]_vars

(***************************************************************************)
(* Properties.                                                             *)
(***************************************************************************)
DataOps == {"add_item", "get_item", "query_items"}

\* The key is complete: it names both attributes of the table's key schema.
CompleteKey(kwargs) == DOMAIN kwargs = {KeySchema.HASH, KeySchema.RANGE}

\* The items of a history written under the key, latest last.
WrittenUnder(log, kwargs) ==
    {i \in DOMAIN log : /\ PyEq(log[i].customerID, kwargs.customerID)
                        /\ PyEq(log[i].orderID, kwargs.orderID)}

LastWritten(log, kwargs) ==
    log[CHOOSE i \in WrittenUnder(log, kwargs) :
            \A j \in WrittenUnder(log, kwargs) : j <= i]

\* C1: once the table handle is bound, no call (create_table, set_table,
\* add_item, get_item, query_items, with any table names) replaces it: the
\* handle is written at most once.
C1_BindOnce == [][table # None => table' = table]_table

\* C2: a get_item with the exact key of an item that an accepted add_item
\* wrote to the table returns an item equal to the last item written under
\* that key, whatever was put under other keys since.
C2_RoundTrip ==
    (/\ last.op = "get_item"
     /\ last.nreq = 1
     /\ last.svc # "InternalServerError"
     /\ CompleteKey(last.args)
     /\ WrittenUnder(written[last.target], last.args) # {})
    => /\ last.kind = "return"
       /\ Cardinality(last.value) = 1
       /\ \A v \in last.value :
             PyEqItem(v, LastWritten(written[last.target], last.args))

\* A get_item returned an item this run wrote, after a later put under
\* another key and over an earlier item under the same key.
C2_Witness ==
    /\ last.op = "get_item"
    /\ last.kind = "return"
    /\ LET log == written[last.target]
           under == WrittenUnder(log, last.args)
       IN  /\ Cardinality(under) >= 2
           /\ \E i \in under : /\ i > Len(SampleItems)
                               /\ i < Len(log)
                               /\ \A j \in under : j <= i

\* C3: a get_item with a complete, well-formed key under which nothing is
\* stored ends in the typed outcome ItemNotFoundError, an outcome of another
\* kind than the failure a key missing a component gets.
C3_NotFound ==
    (/\ last.op = "get_item"
     /\ last.svc = "ok"
     /\ ~\E w \in items[last.target] : SameKey(w, SerializeItem(last.args)))
    => /\ last.kind = "ItemNotFoundError"
       /\ last.kind # "ClientError"

\* C4: a get_item whose key omits the sort attribute never returns (no item,
\* no empty result): it raises; when the request reaches the service the
\* failure is the service's ClientError, a ValidationException unless the
\* service failed otherwise; the stored items are unchanged.
C4_IncompleteKey ==
    (/\ last.op = "get_item"
     /\ KeySchema.RANGE \notin DOMAIN last.args)
    => /\ last.kind # "return"
       /\ last.value = {}
       /\ items = last.items_before
       /\ last.nreq = 1 => last.kind = "ClientError"
       /\ (last.nreq = 1 /\ last.target \in tables
             /\ last.svc # "InternalServerError")
          => last.code = "ValidationException"

C4_Witness ==
    /\ last.op = "get_item"
    /\ last.args = [transactionID |-> PyStr("tr120")]
    /\ last.kind = "ClientError"
    /\ last.code = "ValidationException"
    /\ items[last.target] # {}

\* The stored items of the table queried that the arguments of a range query
\* ask for: same partition value, range attribute within [low, high].
InRange(args, stored) ==
    {w \in stored :
        /\ args.partition_key_name \in DOMAIN w
        /\ w[args.partition_key_name].v = args.partition_key_value.v
        /\ args.range_key_name \in DOMAIN w
        /\ args.range_key_bounds[1].v <= w[args.range_key_name].v
        /\ w[args.range_key_name].v <= args.range_key_bounds[2].v}

\* C5: a query_items with a partition value p, a range key name r and bounds
\* (low, high) that the service answers returns exactly the stored items of
\* partition p whose r value v has low <= v <= high: none outside the
\* interval or of another partition, none inside omitted.
C5_RangeQuery ==
    (/\ last.op = "query_items"
     /\ last.args.range_key_name # None
     /\ last.args.range_key_bounds # NoBounds
     /\ last.svc = "ok")
    => /\ last.kind = "return"
       /\ Cardinality(last.value) = Cardinality(InRange(last.args, items[last.target]))
       /\ \A w \in InRange(last.args, items[last.target]) :
             \E v \in last.value : PyEqItem(v, DeserializeItem(w))

\* A range query returned an item at its lower bound and one at its upper
\* bound, and left out an item of the partition and one of another.
C5_Witness ==
    /\ last.op = "query_items"
    /\ last.kind = "return"
    /\ last.args.range_key_name = "orderSum"
    /\ last.args.range_key_bounds # NoBounds
    /\ \E v \in last.value : v.orderSum.v = last.args.range_key_bounds[1].v
    /\ \E v \in last.value : v.orderSum.v = last.args.range_key_bounds[2].v
    /\ \E w \in items[last.target] :
          /\ w.customerID.v = last.args.partition_key_value.v
          /\ "orderSum" \in DOMAIN w
          /\ w.orderSum.v < last.args.range_key_bounds[1].v
    /\ \E w \in items[last.target] :
          w.customerID.v # last.args.partition_key_value.v

\* C6: when create_table fails (the create request is rejected, or the wait
\* for the table fails) the handle is what it was before the call.
C6_NoHandleAfterFailedCreate ==
    (last.op = "create_table" /\ last.kind # "return") => table = last.pre

\* C7: add_item, get_item or query_items on a facade with no handle and no
\* table name fails (the ValueError of resource.Table(None)) before any
\* request to the service, and the handle stays unbound.
C7_NoTable ==
    (/\ last.op \in DataOps
     /\ last.pre = None
     /\ last.table_name = None)
    => /\ last.kind = "ValueError"
       /\ last.nreq = 0
       /\ table = None
       /\ items = last.items_before

C7_Witness ==
    /\ last.op = "query_items"
    /\ last.pre = None
    /\ last.table_name = None
    /\ last.kind = "ValueError"
    /\ ops > 1

\* C8: when the service fails the request of an add_item, get_item or
\* query_items, the call raises (it never returns) and has issued exactly
\* one request.
C8_FailurePropagates ==
    (/\ last.op \in DataOps
     /\ last.svc \notin {"none", "ok"})
    => /\ last.kind = "ClientError"
       /\ last.code = last.svc
       /\ last.nreq = 1

C8_Witness ==
    /\ last.op = "add_item"
    /\ last.svc = "InternalServerError"
    /\ last.kind = "ClientError"
    /\ last.nreq = 1

\* C9: query_items sends the between-condition exactly when both a range key
\* name and bounds are supplied; with only one of the two the request
\* carries the partition equality alone and the call reaches the service.
C9_RangeOnlyWhenBoth ==
    (/\ last.op = "query_items"
     /\ (last.pre # None \/ last.table_name # None))
    => /\ last.nreq = 1
       /\ HasRange(last.request.KeyConditionExpression)
             <=> (/\ last.args.range_key_name # None
                  /\ last.args.range_key_bounds # NoBounds)

====
